---- MODULE Spec2Model ----
(***************************************************************************)
(* Model of librfm, a client for the RepRapFirmware HTTP file interface.   *)
(*                                                                         *)
(* Spec       the listing engine: Filelist / getFullFilelist (pagination,  *)
(*            sorting, recursive descent, error handling) against a server *)
(*            that answers every rr_filelist request with any page.        *)
(* SpecLegacy the same engine with the getFullFilelist of src/rfm.go.       *)
(* SpecIndex  the containment index: Filelist.Contains / buildIndex on a   *)
(*            fetched tree, called from concurrent goroutines.             *)
(* SpecUpload Upload / getCRC32: buffering, checksum, the POST.            *)
(* SpecFacade Mkdir, Move, Delete, MoveOverwrite.                          *)
(* SpecDelete DeleteRecursive against a server that holds a file tree.     *)
(*                                                                         *)
(* Strings are sequences of byte values, so that path building             *)
(* (fmt.Sprintf("%s/%s", ...)) and Go's string comparison are computed.    *)
(***************************************************************************)
EXTENDS Integers, Sequences, FiniteSets, TLC

\* ---------------------------------------------------------------- bounds
\* entries the server serves in total during one Filelist call
MaxEntries == 2
\* pages that announce a further page (nonzero next) during one Filelist call
MaxMore == 1
\* mutations the owner makes to a returned tree
MaxMut == 1
\* Contains calls made on a returned tree
MaxCalls == 3
\* files and directories the server holds below the listed directory
MaxParts == 3
\* bytes of an upload payload
MaxLen == 2
\* pages that announce a further page during one Filelist call when the server
\* holds a directory tree (more than any such tree has pages)
MaxDiskMore == 6

\* ------------------------------------------------------------- constants
typeDirectory == "d"
typeFile == "f"
errDriveNotMounted == 1
errDirectoryNotExist == 2
\* the byte '/' of the format string "%s/%s"
SLASH == 47

\* the names the server uses: "a", "b"
Names == {<<97>>, <<98>>}
\* the sizes of the files (they tell entries of the same name apart)
Sizes == {0, 1}
\* the error codes a page carries: none, the two mapped ones, another one
ErrCodes == {0, 1, 2, 3}
\* the nonzero next-offsets a page announces
NextOffsets == {1, 2}
\* the directory the caller asks for: "/g"
RootDir == <<47, 103>>
\* the goroutines
Threads == {1, 2}

Nil == "nil"

VARIABLES
    recursive,  \* Filelist's argument
    stack,      \* the active Filelist calls, outermost first
    reqs,       \* every rr_filelist request issued so far: [dir, first]
    served,     \* entries served so far (bounds the server)
    paged,      \* pages served so far that announced a further page
    pc,         \* "run" while Filelist is executing, "done" once it returned
    ret,        \* the *Filelist that Filelist returned: <<>> for nil, else <<fl>>
    err,        \* the error that Filelist returned (Nil for nil)
    failed,     \* history: the number of the request that failed, 0 if none
    last,       \* history: the reply to the latest request
    server,     \* what the server holds: anything, or one directory tree
    heap,       \* the returned tree as the structs it is made of: node id -> Filelist
    once,       \* node id -> state of its sync.Once: "new", "running", "done"
    index,      \* node id -> its index map: <<>> for nil, else <<set of keys>>
    builds,     \* history: node id -> number of buildIndex runs on it
    built,      \* history: node id -> its index when its once.Do completed
    th,         \* the goroutines that call Contains
    raced,      \* history: two goroutines accessed one index unsynchronised
    muts,       \* mutations of the returned tree made by its owner so far
    calls,      \* Contains calls made on the returned tree so far
    legacy,     \* the listing code is that of src/rfm.go: no first parameter
    op,         \* the call of the facade in progress and where it stands
    wire,       \* history: the requests that call has issued, with their outcome
    res,        \* what that call returned: <<>> while it runs, else <<error>>
    disk        \* the paths the server holds while it serves delete requests

listVars == <<recursive, stack, reqs, served, paged, pc, ret, err, failed, last, server>>
indexVars == <<heap, once, index, builds, built, th, raced, muts, calls>>
opVars == <<legacy, op, wire, res, disk>>
vars == <<listVars, indexVars, opVars>>

\* ------------------------------------------------------------ data model
DirEntries == {[Type |-> typeDirectory, Name |-> n, Size |-> 0] : n \in Names}
FileEntries == {[Type |-> typeFile, Name |-> n, Size |-> s] : n \in Names, s \in Sizes}
Entries == DirEntries \cup FileEntries

SeqsUpTo(S, n) == UNION {[1..k -> S] : k \in 0..n}

IsDir(f) == f.Type = typeDirectory
IsFile(f) == f.Type = typeFile

\* Go's < on strings: bytewise lexicographic
RECURSIVE StrLess(_, _)
StrLess(s, t) ==
    IF t = <<>> THEN FALSE
    ELSE IF s = <<>> THEN TRUE
    ELSE IF Head(s) # Head(t) THEN Head(s) < Head(t)
    ELSE StrLess(Tail(s), Tail(t))

\* a plausible slip: the type is not compared, only the name
LessByName(x, y) == StrLess(x.Name, y.Name)

\* the less function handed to sort.SliceStable
Less(x, y) ==
    IF x.Type = y.Type
    THEN StrLess(x.Name, y.Name)
    ELSE x.Type = typeDirectory

Swap(s, i, j) == [s EXCEPT ![i] = s[j], ![j] = s[i]]

\* the inner loop of the insertion sort: for j := i; j > a && less(j, j-1); j--
RECURSIVE InsertBack(_, _)
InsertBack(s, j) ==
    IF j > 1 /\ Less(s[j], s[j - 1])
    THEN InsertBack(Swap(s, j, j - 1), j - 1)
    ELSE s

RECURSIVE SliceStableFrom(_, _)
SliceStableFrom(s, i) ==
    IF i > Len(s) THEN s ELSE SliceStableFrom(InsertBack(s, i), i + 1)

\* sort.SliceStable on fewer than 20 elements is one insertion sort
SliceStable(s) == SliceStableFrom(s, 2)

\* a plausible slip: the later pages are fetched but not appended
AppendNothing(files, more) == files

\* fl.Files = append(fl.Files, moreFiles.Files...)
AppendMore(files, more) == files \o more

\* What the getFullFilelist call that decoded pages[i] returns when no request
\* fails: the calls for the later pages nest inside it.
RECURSIVE getFullFilelist(_, _)
getFullFilelist(pages, i) ==
    LET fl == pages[i]
        files == IF fl.Next > 0
                 THEN AppendMore(fl.Files, getFullFilelist(pages, i + 1).Files)
                 ELSE fl.Files
    IN  [Dir |-> fl.Dir, Files |-> SliceStable(files), Next |-> fl.Next,
         Err |-> fl.Err, Subdirs |-> <<>>]

\* a plausible slip: the two codes are swapped
ListingErrorSwapped(code) ==
    IF code = errDriveNotMounted THEN "ErrDirectoryNotFound"
    ELSE IF code = errDirectoryNotExist THEN "ErrDriveNotMounted"
    ELSE Nil

\* the error getFullFilelist maps a decoded page's Err to (Nil: none)
ListingError(code) ==
    IF code = errDirectoryNotExist THEN "ErrDirectoryNotFound"
    ELSE IF code = errDriveNotMounted THEN "ErrDriveNotMounted"
    ELSE Nil

\* a plausible slip: the separator is left out
SubPathNoSlash(dir, name) == dir \o name

\* fmt.Sprintf("%s/%s", fl.Dir, f.Name)
SubPath(dir, name) == dir \o <<SLASH>> \o name

\* a fresh Filelist call: its getFullFilelist starts at offset 0
\* (fl holds the assembled listing once getFullFilelist returned: <<>> or <<fl>>)
NewCall(dir) == [req |-> dir, first |-> 0, pages |-> <<>>, fl |-> <<>>, idx |-> 1]

\* a plausible slip: the sub-listing is put in front
PrependSubdir(subdirs, subfl) == <<subfl>> \o subdirs

\* fl.Subdirs = append(fl.Subdirs, subfl)
AppendSubdir(subdirs, subfl) == Append(subdirs, subfl)

\* The Filelist call on top of stk, from the point where its listing fl is
\* assembled (or a sub-call returned) up to the next request or to the return
\* of the outermost call.
RECURSIVE Filelist(_, _)
Filelist(stk, rec) ==
    LET n == Len(stk)
        top == stk[n]
        fl == top.fl[1]
        deep == IF n = 1 THEN rec ELSE TRUE
    IN  IF deep /\ top.idx <= Len(fl.Files) /\ IsDir(fl.Files[top.idx])
        THEN [stack |-> Append(stk, NewCall(SubPath(fl.Dir, fl.Files[top.idx].Name))),
              ret |-> <<>>, err |-> Nil, done |-> FALSE]
        ELSE IF n = 1
        THEN [stack |-> <<>>, ret |-> <<fl>>, err |-> Nil, done |-> TRUE]
        ELSE LET parent == stk[n - 1]
                 back == [parent EXCEPT !.fl[1].Subdirs = AppendSubdir(@, fl),
                                        !.idx = @ + 1]
             IN  Filelist(Append(SubSeq(stk, 1, n - 2), back), rec)

\* a plausible slip: the outermost call hands back what it has so far
AbortPartial(stk, e) ==
    [stack |-> <<>>, ret |-> stk[1].fl, err |-> e, done |-> TRUE]

\* every active call returns nil, err
Abort(stk, e) == [stack |-> <<>>, ret |-> <<>>, err |-> e, done |-> TRUE]

\* ----------------------------------------------------------------- server
Top == stack[Len(stack)]

\* the query of the request getFullFilelist issues next; the URL of src/rfm.go
\* has no first parameter, the firmware then starts at 0
Request == [dir |-> Top.req, first |-> IF legacy THEN 0 ELSE Top.first]

\* A server that holds a directory tree answers a request at offset first
\* with the page that starts there, size entries at most, and reports the
\* offset of the following page, or 0 with the last one.
DiskPage(ls, first, size) ==
    LET upto == IF first + size < Len(ls) THEN first + size ELSE Len(ls)
    IN  [files |-> SubSeq(ls, first + 1, upto),
         next |-> IF first + size < Len(ls) THEN first + size ELSE 0]

\* the file lists a page may carry
PageFiles ==
    IF server.any
    THEN SeqsUpTo(Entries, IF MaxEntries - served < 0 THEN 0 ELSE MaxEntries - served)
    ELSE {DiskPage(server.ls[Request.dir], Request.first, server.size).files}

\* the nonzero next offsets a page may carry
PageNexts ==
    IF server.any THEN NextOffsets
    ELSE {DiskPage(server.ls[Request.dir], Request.first, server.size).next} \ {0}

\* whether a page may carry the next offset 0
PageEnds ==
    IF server.any THEN TRUE
    ELSE DiskPage(server.ls[Request.dir], Request.first, server.size).next = 0

\* the cap on the pages that announce a further page
MoreCap == IF server.any THEN MaxMore ELSE MaxDiskMore

\* the error codes a page may carry
PageCodes == IF server.any THEN ErrCodes ELSE {0}

\* the decoded body of a reply: the server echoes the directory
Page(files, next, code) ==
    [Dir |-> Top.req, Files |-> files, Next |-> next, Err |-> code,
     first |-> Request.first]

\* The structs of a returned tree: Subdirs holds pointers, here node ids
\* (the root is 1, the nodes of a subtree follow their root).
RECURSIVE TreeSize(_), SizeUpTo(_, _)
SizeUpTo(subs, i) == IF i = 0 THEN 0 ELSE SizeUpTo(subs, i - 1) + TreeSize(subs[i])
TreeSize(fl) == 1 + SizeUpTo(fl.Subdirs, Len(fl.Subdirs))

RECURSIVE Flatten(_, _), FlattenSubs(_, _, _)
FlattenSubs(fl, k, i) ==
    IF i > Len(fl.Subdirs) THEN <<>>
    ELSE Flatten(fl.Subdirs[i], k + 1 + SizeUpTo(fl.Subdirs, i - 1))
             \o FlattenSubs(fl, k, i + 1)
Flatten(fl, k) ==
    <<[Dir |-> fl.Dir, Files |-> fl.Files,
       Subdirs |-> [i \in DOMAIN fl.Subdirs |-> k + 1 + SizeUpTo(fl.Subdirs, i - 1)]]>>
        \o FlattenSubs(fl, k, 1)

\* the effect of a step of Filelist: on return the caller holds the tree, every
\* node with a zero sync.Once and a nil index
Apply(out) ==
    /\ stack' = out.stack
    /\ ret' = out.ret
    /\ err' = out.err
    /\ pc' = IF out.done THEN "done" ELSE "run"
    /\ heap' = IF out.ret = <<>> THEN <<>> ELSE Flatten(out.ret[1], 1)
    /\ once' = [n \in DOMAIN heap' |-> "new"]
    /\ index' = [n \in DOMAIN heap' |-> <<>>]
    /\ builds' = [n \in DOMAIN heap' |-> 0]
    /\ built' = [n \in DOMAIN heap' |-> <<>>]
    /\ UNCHANGED <<th, raced, muts, calls>>

\* ---------------------------------------------------------------- actions
Idle == [pc |-> "idle", node |-> 0, bs |-> <<>>, ok |-> TRUE, val |-> {}]

\* Filelist(RootDir, recursive) has just been called
Called ==
    /\ recursive \in BOOLEAN
    /\ stack = <<NewCall(RootDir)>>
    /\ reqs = <<>>
    /\ served = 0
    /\ paged = 0
    /\ pc = "run"
    /\ ret = <<>>
    /\ err = Nil
    /\ failed = 0
    /\ last = [kind |-> "none"]
    /\ heap = <<>>
    /\ once = <<>>
    /\ index = <<>>
    /\ builds = <<>>
    /\ built = <<>>
    /\ th = [t \in Threads |-> Idle]
    /\ raced = FALSE
    /\ muts = 0
    /\ calls = 0

\* Filelist is not called
NoList ==
    /\ recursive = FALSE
    /\ stack = <<>>
    /\ reqs = <<>>
    /\ served = 0
    /\ paged = 0
    /\ pc = "idle"
    /\ ret = <<>>
    /\ err = Nil
    /\ failed = 0
    /\ last = [kind |-> "none"]
    /\ heap = <<>>
    /\ once = <<>>
    /\ index = <<>>
    /\ builds = <<>>
    /\ built = <<>>
    /\ th = [t \in Threads |-> Idle]
    /\ raced = FALSE
    /\ muts = 0
    /\ calls = 0

\* no call of the facade other than Filelist is made
NoOp ==
    /\ op = [fn |-> "Filelist"]
    /\ wire = <<>>
    /\ res = <<>>
    /\ disk = {}

Init ==
    /\ server = [any |-> TRUE]
    /\ legacy = FALSE
    /\ NoOp
    /\ Called

\* doGetRequest fails
GetTransportError ==
    /\ pc = "run"
    /\ reqs' = Append(reqs, Request)
    /\ failed' = Len(reqs) + 1
    /\ Apply(Abort(stack, "transport"))
    /\ last' = [kind |-> "transport"]
    /\ UNCHANGED <<opVars, recursive, served, paged, server>>

\* json.Unmarshal fails
GetDecodeError ==
    /\ pc = "run"
    /\ reqs' = Append(reqs, Request)
    /\ failed' = Len(reqs) + 1
    /\ Apply(Abort(stack, "decode"))
    /\ last' = [kind |-> "decode"]
    /\ UNCHANGED <<opVars, recursive, served, paged, server>>

\* the page decodes and carries an error code getFullFilelist maps
GetListingError ==
    /\ pc = "run"
    /\ \E files \in PageFiles, next \in {0} \cup NextOffsets, code \in PageCodes :
        /\ ListingError(code) # Nil
        /\ reqs' = Append(reqs, Request)
        /\ failed' = Len(reqs) + 1
        /\ served' = served + Len(files)
        /\ Apply(Abort(stack, ListingError(code)))
        /\ last' = [kind |-> "page", page |-> Page(files, next, code)]
    /\ UNCHANGED <<opVars, recursive, paged, server>>

\* the page decodes, is accepted and announces a further page
GetPageMore ==
    /\ pc = "run"
    /\ paged < MoreCap
    /\ \E files \in PageFiles, next \in PageNexts, code \in PageCodes :
        /\ ListingError(code) = Nil
        /\ reqs' = Append(reqs, Request)
        /\ served' = served + Len(files)
        /\ stack' = [stack EXCEPT ![Len(stack)].pages = Append(@, Page(files, next, code)),
                                  ![Len(stack)].first = next]
        /\ last' = [kind |-> "page", page |-> Page(files, next, code)]
    /\ paged' = paged + 1
    /\ UNCHANGED <<opVars, recursive, pc, ret, err, failed, server, indexVars>>

\* the page decodes, is accepted and is the last one of its directory
GetPageLast ==
    /\ pc = "run"
    /\ PageEnds
    /\ \E files \in PageFiles, code \in PageCodes :
        /\ ListingError(code) = Nil
        /\ reqs' = Append(reqs, Request)
        /\ served' = served + Len(files)
        /\ last' = [kind |-> "page", page |-> Page(files, 0, code)]
        /\ LET pages == Append(Top.pages, Page(files, 0, code))
               fl == getFullFilelist(pages, 1) @@ [hReq |-> Top.req, hPages |-> pages]
               stk == [stack EXCEPT ![Len(stack)].pages = pages,
                                    ![Len(stack)].fl = <<fl>>]
           IN  Apply(Filelist(stk, recursive))
    /\ UNCHANGED <<opVars, recursive, paged, failed, server>>

Next ==
    \/ GetTransportError
    \/ GetDecodeError
    \/ GetListingError
    \/ GetPageMore
    \/ GetPageLast

Spec == Init /\ [][Next]_vars

\* The listing engine of src/rfm.go: the same calls, but the rr_filelist URL
\* carries the directory only.
InitLegacy ==
    /\ server = [any |-> TRUE]
    /\ legacy = TRUE
    /\ NoOp
    /\ Called

SpecLegacy == InitLegacy /\ [][Next]_vars

\* ------------------------------------------------- the containment index
\* the keys of a node's index map (a nil map reads as empty)
Keys(n) == IF index[n] = <<>> THEN {} ELSE index[n][1]

\* a plausible slip: only the directory of the subdir is taken over, not its
\* index
MergeSubdirDirOnly(idx, subidx, subdir) == idx \cup {subdir}

\* for k, v := range subdir.index { f.index[k] = v }; f.index[subdir.Dir] = true
MergeSubdir(idx, subidx, subdir) == idx \cup subidx \cup {subdir}

\* the paths the loop over f.Files adds: every entry that is no directory
FilePaths(dir, files) ==
    {SubPath(dir, files[i].Name) : i \in {j \in DOMAIN files : ~IsDir(files[j])}}

\* a plausible slip (and the behaviour of the first version of this file):
\* the listing's own directory is not put into the index
FinishIndexFilesOnly(idx, dir, files) == idx \cup FilePaths(dir, files)

\* the loop over f.Files, then f.index[f.Dir] = true
FinishIndex(idx, dir, files) == idx \cup FilePaths(dir, files) \cup {dir}

\* goroutine t or another one is inside buildIndex of node n, past its make
Building(t, n) ==
    \E i \in DOMAIN th[t].bs : th[t].bs[i].node = n /\ th[t].bs[i].st # "make"
OthersBuilding(t, n) == \E u \in Threads \ {t} : Building(u, n)

TopFrame(t) == th[t].bs[Len(th[t].bs)]

\* the paths a caller asks about: every path the server may hold, and "/g/m"
QueryPaths ==
    {RootDir, RootDir \o <<47, 97>>, RootDir \o <<47, 97, 47, 97>>,
     RootDir \o <<47, 98>>, RootDir \o <<47, 98, 47, 120>>, RootDir \o <<47, 120>>,
     RootDir \o <<47, 109>>}

\* the frame of a buildIndex call that has not run its first statement
Frame(n) == [node |-> n, subs |-> <<>>, i |-> 1, st |-> "make"]

\* the frames of a goroutine after the top one moved on to f.Subdirs[i]: the
\* call subdir.buildIndex() is made, directly, when there is such a subdir
Descend(bs, subs, i) ==
    LET d == Len(bs)
        here == [bs EXCEPT ![d].subs = subs, ![d].i = i, ![d].st = "loop"]
    IN  IF i <= Len(subs) THEN Append(here, Frame(subs[i])) ELSE here

\* a goroutine calls Contains on a node of the returned tree and reaches
\* f.once.Do(f.buildIndex): the first caller runs buildIndex, a caller that
\* finds it running waits, a caller that finds it done goes on
ContainsCall ==
    /\ pc = "done"
    /\ calls < MaxCalls
    /\ \E t \in Threads, n \in DOMAIN heap :
        /\ th[t].pc = "idle"
        /\ IF once[n] = "new"
           THEN /\ once' = [once EXCEPT ![n] = "running"]
                /\ th' = [th EXCEPT ![t].pc = "build", ![t].node = n,
                                    ![t].bs = <<Frame(n)>>]
           ELSE /\ th' = [th EXCEPT ![t].pc = IF once[n] = "done" THEN "read" ELSE "once",
                                    ![t].node = n]
                /\ UNCHANGED once
    /\ calls' = calls + 1
    /\ UNCHANGED <<opVars, listVars, heap, index, builds, built, raced, muts>>

\* once.Do returns to a caller that waited for the running buildIndex
OnceDo ==
    /\ \E t \in Threads :
        /\ th[t].pc = "once"
        /\ once[th[t].node] = "done"
        /\ th' = [th EXCEPT ![t].pc = "read"]
    /\ UNCHANGED <<opVars, listVars, heap, once, index, builds, built, raced, muts, calls>>

\* buildIndex: f.index = make(map[string]bool), and the range over f.Subdirs
\* takes the slice
BuildMake ==
    /\ \E t \in Threads :
        /\ th[t].pc = "build"
        /\ TopFrame(t).st = "make"
        /\ LET n == TopFrame(t).node
           IN  /\ index' = [index EXCEPT ![n] = <<{}>>]
               /\ builds' = [builds EXCEPT ![n] = @ + 1]
               /\ raced' = (raced \/ OthersBuilding(t, n))
               /\ th' = [th EXCEPT ![t].bs = Descend(@, heap[n].Subdirs, 1)]
    /\ UNCHANGED <<opVars, listVars, heap, once, built, muts, calls>>

\* buildIndex: the index of the subdir just built is copied, its Dir is added
BuildMerge ==
    /\ \E t \in Threads :
        /\ th[t].pc = "build"
        /\ TopFrame(t).st = "merge"
        /\ LET n == TopFrame(t).node
               sub == TopFrame(t).subs[TopFrame(t).i]
           IN  /\ index' = [index EXCEPT
                               ![n] = <<MergeSubdir(Keys(n), Keys(sub), heap[sub].Dir)>>]
               /\ raced' = (raced \/ OthersBuilding(t, n) \/ OthersBuilding(t, sub))
               /\ th' = [th EXCEPT ![t].bs =
                            Descend(@, TopFrame(t).subs, TopFrame(t).i + 1)]
    /\ UNCHANGED <<opVars, listVars, heap, once, builds, built, muts, calls>>

\* buildIndex: the files and the own directory are added and buildIndex
\* returns, to the buildIndex that called it or to once.Do
BuildFinish ==
    /\ \E t \in Threads :
        /\ th[t].pc = "build"
        /\ TopFrame(t).st = "loop"
        /\ TopFrame(t).i > Len(TopFrame(t).subs)
        /\ LET n == TopFrame(t).node
               d == Len(th[t].bs)
           IN  /\ index' = [index EXCEPT
                               ![n] = <<FinishIndex(Keys(n), heap[n].Dir, heap[n].Files)>>]
               /\ raced' = (raced \/ OthersBuilding(t, n))
               /\ IF d = 1
                  THEN /\ th' = [th EXCEPT ![t].pc = "read", ![t].bs = <<>>]
                       /\ once' = [once EXCEPT ![n] = "done"]
                       /\ built' = [built EXCEPT ![n] = index'[n]]
                  ELSE /\ th' = [th EXCEPT ![t].bs =
                                    [SubSeq(@, 1, d - 1) EXCEPT ![d - 1].st = "merge"]]
                       /\ UNCHANGED <<once, built>>
    /\ UNCHANGED <<opVars, listVars, heap, builds, muts, calls>>

\* return f.index[path], for every path at once: val holds the paths for which
\* this call returns true. A lookup that races with a buildIndex on the same
\* node has no defined result (the runtime may also stop the program): ok is
\* FALSE then.
ContainsRead ==
    /\ \E t \in Threads :
        /\ th[t].pc = "read"
        /\ th' = [th EXCEPT ![t].pc = "ret",
                            ![t].ok = ~OthersBuilding(t, th[t].node),
                            ![t].val = IF OthersBuilding(t, th[t].node) THEN {}
                                       ELSE Keys(th[t].node) \cap QueryPaths]
        /\ raced' = (raced \/ OthersBuilding(t, th[t].node))
    /\ UNCHANGED <<opVars, listVars, heap, once, index, builds, built, muts, calls>>

\* the caller has the result
ContainsReturn ==
    /\ \E t \in Threads :
        /\ th[t].pc = "ret"
        /\ th' = [th EXCEPT ![t] = Idle]
    /\ UNCHANGED <<opVars, listVars, heap, once, index, builds, built, raced, muts, calls>>

\* the owner of the tree drops the last entry of a node's Files (between calls)
MutateFiles ==
    /\ pc = "done"
    /\ muts < MaxMut
    /\ \A t \in Threads : th[t].pc = "idle"
    /\ \E n \in DOMAIN heap :
        /\ heap[n].Files # <<>>
        /\ heap' = [heap EXCEPT ![n].Files = SubSeq(@, 1, Len(@) - 1)]
    /\ muts' = muts + 1
    /\ UNCHANGED <<opVars, listVars, once, index, builds, built, th, raced, calls>>

\* the owner of the tree drops the last element of a node's Subdirs
MutateSubdirs ==
    /\ pc = "done"
    /\ muts < MaxMut
    /\ \A t \in Threads : th[t].pc = "idle"
    /\ \E n \in DOMAIN heap :
        /\ heap[n].Subdirs # <<>>
        /\ heap' = [heap EXCEPT ![n].Subdirs = SubSeq(@, 1, Len(@) - 1)]
    /\ muts' = muts + 1
    /\ UNCHANGED <<opVars, listVars, once, index, builds, built, th, raced, calls>>

\* The directory trees the server holds in SpecIndex: any of /g/a (directory),
\* /g/a/a (directory), /g/b (directory), /g/b/x (file), /g/x (file), each
\* listing served in one page, files first and names descending.
DiskParts == {"a", "aa", "b", "bx", "x"}
Disks ==
    {S \in SUBSET DiskParts :
        /\ Cardinality(S) <= MaxParts
        /\ "aa" \in S => "a" \in S
        /\ "bx" \in S => "b" \in S}

Keep(S, part, type, name) ==
    IF part \in S THEN <<[Type |-> type, Name |-> name, Size |-> 0]>> ELSE <<>>

DiskLs(S) ==
    (RootDir :> Keep(S, "x", typeFile, <<120>>) \o Keep(S, "b", typeDirectory, <<98>>)
                    \o Keep(S, "a", typeDirectory, <<97>>))
    @@ (RootDir \o <<47, 97>> :> Keep(S, "aa", typeDirectory, <<97>>))
    @@ (RootDir \o <<47, 97, 47, 97>> :> <<>>)
    @@ (RootDir \o <<47, 98>> :> Keep(S, "bx", typeFile, <<120>>))

InitIndex ==
    /\ \E S \in Disks :
          server = [any |-> FALSE, ls |-> DiskLs(S), size |-> Cardinality(DiskParts)]
    /\ legacy = FALSE
    /\ NoOp
    /\ Called

NextIndex ==
    \/ GetPageLast
    \/ ContainsCall
    \/ OnceDo
    \/ BuildMake
    \/ BuildMerge
    \/ BuildFinish
    \/ ContainsRead
    \/ ContainsReturn
    \/ MutateFiles
    \/ MutateSubdirs

SpecIndex == InitIndex /\ [][NextIndex]_vars

\* --------------------------------------------------------- paged listings
\* the entries a page of the server holds at most
PageSizes == {1, 2}

\* Filelist(RootDir, recursive) has just been called, against a server that
\* holds a directory tree and serves every directory in pages
InitPaged ==
    /\ \E S \in Disks, size \in PageSizes :
          server = [any |-> FALSE, ls |-> DiskLs(S), size |-> size]
    /\ legacy = FALSE
    /\ NoOp
    /\ Called

\* the same call made by the engine of src/rfm.go
InitPagedLegacy ==
    /\ \E S \in Disks, size \in PageSizes :
          server = [any |-> FALSE, ls |-> DiskLs(S), size |-> size]
    /\ legacy = TRUE
    /\ NoOp
    /\ Called

\* every request is answered
NextPaged ==
    \/ GetPageMore
    \/ GetPageLast

\* The goroutine that runs Filelist is not held up for ever: a request that
\* can be answered is answered, and the call goes on.
SpecPaged == InitPaged /\ [][NextPaged]_vars /\ WF_vars(NextPaged)

SpecPagedLegacy == InitPagedLegacy /\ [][NextPaged]_vars /\ WF_vars(NextPaged)

\* ------------------------------------------------------------- the upload
\* the bytes a payload is made of: 0x00, '&', 0xff
PayloadBytes == {0, 38, 255}
Payloads == SeqsUpTo(PayloadBytes, MaxLen)
\* the caller uploads, and then uploads once more
UploadCalls == {1, 2}
\* the path the caller uploads to: "/g/a"
UploadPath == RootDir \o <<47, 97>>

\* a uint32 value is the set of the positions (0 the lowest) of its one bits
Word(hi, lo) ==
    {i \in 0..15 : (lo \div 2^i) % 2 = 1}
        \cup {i \in 16..31 : (hi \div 2^(i - 16)) % 2 = 1}
Xor(a, b) == (a \ b) \cup (b \ a)
Shr(a, k) == {i - k : i \in {j \in a : j >= k}}
Not(a) == (0..31) \ a
Bit(v, i) == IF i \in v THEN 1 ELSE 0
\* byte(v >> k)
ByteAt(v, k) ==
    Bit(v, k) + 2 * Bit(v, k + 1) + 4 * Bit(v, k + 2) + 8 * Bit(v, k + 3)
        + 16 * Bit(v, k + 4) + 32 * Bit(v, k + 5) + 64 * Bit(v, k + 6)
        + 128 * Bit(v, k + 7)

\* crc32.IEEE, 0xedb88320, as its two halves 0xedb8 and 0x8320
IEEE == Word(60856, 33568)

\* the entry of crc32.IEEETable for a byte: eight times
\* if crc&1 == 1 { crc = (crc >> 1) ^ poly } else { crc >>= 1 }
RECURSIVE TableEntry(_, _)
TableEntry(crc, j) ==
    IF j = 8 THEN crc
    ELSE TableEntry(IF 0 \in crc THEN Xor(Shr(crc, 1), IEEE) ELSE Shr(crc, 1), j + 1)

\* crc32.IEEETable, built once
IEEETable == [b \in 0..255 |-> TableEntry(Word(0, b), 0)]

\* for _, v := range p { crc = tab[byte(crc)^v] ^ (crc >> 8) }
RECURSIVE Update(_, _)
Update(crc, p) ==
    IF p = <<>> THEN crc
    ELSE Update(Xor(IEEETable[ByteAt(Xor(crc, Word(0, Head(p))), 0)], Shr(crc, 8)),
                Tail(p))

\* crc32.ChecksumIEEE(b): the register starts and ends inverted
ChecksumIEEE(b) == Not(Update(Not(Word(0, 0)), b))

\* a plausible slip (the one the comment in the code announces): the lowest
\* byte comes first
LittleEndianPutUint32(v) == <<ByteAt(v, 0), ByteAt(v, 8), ByteAt(v, 16), ByteAt(v, 24)>>

\* binary.BigEndian.PutUint32(le, c)
BigEndianPutUint32(v) == <<ByteAt(v, 24), ByteAt(v, 16), ByteAt(v, 8), ByteAt(v, 0)>>

\* "0123456789abcdef"
hextable == <<48, 49, 50, 51, 52, 53, 54, 55, 56, 57, 97, 98, 99, 100, 101, 102>>

\* hex.EncodeToString(src): two characters per byte, the high nibble first
RECURSIVE EncodeToString(_)
EncodeToString(src) ==
    IF src = <<>> THEN <<>>
    ELSE <<hextable[(Head(src) \div 16) + 1], hextable[(Head(src) % 16) + 1]>>
             \o EncodeToString(Tail(src))

\* a plausible slip: the reader handed on is already drained
NewReaderDrained(b) == [s |-> b, i |-> Len(b)]

\* bytes.NewReader(b): the slice and the read position
NewReader(b) == [s |-> b, i |-> 0]

\* what the HTTP client reads from a bytes.Reader: the bytes from its position on
ReadFrom(r) == SubSeq(r.s, r.i + 1, Len(r.s))

\* getCRC32 once io.ReadAll returned b and no error
getCRC32(b) ==
    [content |-> NewReader(b),
     crc32 |-> EncodeToString(BigEndianPutUint32(ChecksumIEEE(b)))]

\* a plausible slip: a nonzero code is not looked at
checkErrorIgnoreCode(action, reply) ==
    IF reply.kind = "transport" THEN [e |-> "transport"]
    ELSE IF reply.kind = "decode" THEN [e |-> "decode"]
    ELSE [e |-> "nil"]

\* checkError(action, resp, err) for the outcome of a request: the transport
\* failed, the body did not decode, or it decoded to an error code
checkError(action, reply) ==
    IF reply.kind = "transport" THEN [e |-> "transport"]
    ELSE IF reply.kind = "decode" THEN [e |-> "decode"]
    ELSE IF reply.code # 0 THEN [e |-> "Failed to perform", action |-> action]
    ELSE [e |-> "nil"]

\* the outcomes of a request
Replies ==
    {[kind |-> "transport"], [kind |-> "decode"]}
        \cup {[kind |-> "code", code |-> c] : c \in ErrCodes}

\* Upload(path, content) has just been called for the n-th time: content
\* delivers data, or fails after fail bytes of it (fail < 0: it does not fail)
UploadCall(n, data, fail) ==
    [fn |-> "Upload", n |-> n, data |-> data, fail |-> fail, pos |-> 0,
     buf |-> <<>>, st |-> "read"]

\* io.ReadAll: one Read of content delivers the next bytes
UploadRead ==
    /\ op.fn = "Upload" /\ op.st = "read"
    /\ LET limit == IF op.fail < 0 THEN Len(op.data) ELSE op.fail
       IN  \E k \in 1..(limit - op.pos) :
              op' = [op EXCEPT !.pos = @ + k,
                               !.buf = @ \o SubSeq(op.data, op.pos + 1, op.pos + k)]
    /\ UNCHANGED <<listVars, indexVars, legacy, wire, res, disk>>

\* io.ReadAll: a Read of content fails; getCRC32 and Upload return the error
UploadReadError ==
    /\ op.fn = "Upload" /\ op.st = "read"
    /\ op.fail >= 0 /\ op.pos = op.fail
    /\ op' = [op EXCEPT !.st = "done"]
    /\ res' = <<[e |-> "read"]>>
    /\ UNCHANGED <<listVars, indexVars, legacy, wire, disk>>

\* io.ReadAll reaches the end of content: the checksum is computed and the
\* POST is issued with the new reader as its body
UploadPost ==
    /\ op.fn = "Upload" /\ op.st = "read"
    /\ op.fail < 0 /\ op.pos = Len(op.data)
    /\ LET c == getCRC32(op.buf)
       IN  wire' = Append(wire, [method |-> "POST", url |-> "rr_upload",
                                 name |-> UploadPath, crc32 |-> c.crc32,
                                 body |-> ReadFrom(c.content), call |-> op.n,
                                 payload |-> op.data])
    /\ op' = [op EXCEPT !.st = "wait"]
    /\ UNCHANGED <<listVars, indexVars, legacy, res, disk>>

\* the POST ends and Upload returns what checkError makes of it
UploadReply ==
    /\ op.fn = "Upload" /\ op.st = "wait"
    /\ \E reply \in Replies :
          res' = <<checkError([verb |-> "Uploading file to", args |-> <<UploadPath>>],
                              reply)>>
    /\ op' = [op EXCEPT !.st = "done"]
    /\ UNCHANGED <<listVars, indexVars, legacy, wire, disk>>

\* the caller calls Upload once more
UploadAgain ==
    /\ op.fn = "Upload" /\ op.st = "done"
    /\ op.n + 1 \in UploadCalls
    /\ \E data \in Payloads, fail \in -1..MaxLen :
          /\ fail <= Len(data)
          /\ op' = UploadCall(op.n + 1, data, fail)
    /\ res' = <<>>
    /\ UNCHANGED <<listVars, indexVars, legacy, wire, disk>>

InitUpload ==
    /\ server = [any |-> TRUE]
    /\ legacy = FALSE
    /\ NoList
    /\ \E data \in Payloads, fail \in -1..MaxLen :
          /\ fail <= Len(data)
          /\ op = UploadCall(1, data, fail)
    /\ wire = <<>>
    /\ res = <<>>
    /\ disk = {}

NextUpload ==
    \/ UploadRead
    \/ UploadReadError
    \/ UploadPost
    \/ UploadReply
    \/ UploadAgain

SpecUpload == InitUpload /\ [][NextUpload]_vars

\* ------------------------------------------- the one-request operations
\* the paths the caller names: "/g/a", "/g/b"
FacadePaths == {RootDir \o <<47, 97>>, RootDir \o <<47, 98>>}

\* the calls the caller may make
FacadeCalls ==
    {[fn |-> f, args |-> <<p>>, st |-> "call"] : f \in {"Mkdir", "Delete"}, p \in FacadePaths}
        \cup {[fn |-> "Move", args |-> <<p, q>>, st |-> "call"] : p, q \in FacadePaths}
        \cup {[fn |-> "MoveOverwrite", args |-> <<p, q>>, st |-> "probe"] :
                 p, q \in FacadePaths}

\* a GET request as it leaves, with the outcome it will have
Get(url, args, reply) == [method |-> "GET", url |-> url, args |-> args, reply |-> reply]

\* the action string checkError is given: fmt.Sprintf("Mkdir %s", path),
\* "Rename %s to %s", "Delete %s"
MkdirAction(path) == [verb |-> "Mkdir", args |-> <<path>>]
MoveAction(oldpath, newpath) == [verb |-> "Rename", args |-> <<oldpath, newpath>>]
DeleteAction(path) == [verb |-> "Delete", args |-> <<path>>]

\* the error Fileinfo returns for the outcome of its request
Fileinfo(reply) ==
    IF reply.kind = "transport" THEN [e |-> "transport"]
    ELSE IF reply.kind = "decode" THEN [e |-> "decode"]
    ELSE IF reply.code # 0 THEN [e |-> "FileNotFoundError"]
    ELSE [e |-> "nil"]

\* a plausible slip: the target is deleted whatever the probe said
AfterProbeAlwaysDelete(e) == "delete"

\* if _, err := r.Fileinfo(newpath); err == nil { Delete } ; Move
AfterProbe(e) == IF e = [e |-> "nil"] THEN "delete" ELSE "move"

\* Mkdir(path): one request, then checkError
Mkdir ==
    /\ op.fn = "Mkdir" /\ op.st = "call"
    /\ \E reply \in Replies :
          /\ wire' = Append(wire, Get("rr_mkdir", op.args, reply))
          /\ res' = <<checkError(MkdirAction(op.args[1]), reply)>>
    /\ op' = [op EXCEPT !.st = "done"]
    /\ UNCHANGED <<listVars, indexVars, legacy, disk>>

\* Move(oldpath, newpath): one request, then checkError
Move ==
    /\ op.fn = "Move" /\ op.st = "call"
    /\ \E reply \in Replies :
          /\ wire' = Append(wire, Get("rr_move", op.args, reply))
          /\ res' = <<checkError(MoveAction(op.args[1], op.args[2]), reply)>>
    /\ op' = [op EXCEPT !.st = "done"]
    /\ UNCHANGED <<listVars, indexVars, legacy, disk>>

\* Delete(path): one request, then checkError
Delete ==
    /\ op.fn = "Delete" /\ op.st = "call"
    /\ \E reply \in Replies :
          /\ wire' = Append(wire, Get("rr_delete", op.args, reply))
          /\ res' = <<checkError(DeleteAction(op.args[1]), reply)>>
    /\ op' = [op EXCEPT !.st = "done"]
    /\ UNCHANGED <<listVars, indexVars, legacy, disk>>

\* MoveOverwrite(oldpath, newpath): r.Fileinfo(newpath)
MoveOverwriteProbe ==
    /\ op.fn = "MoveOverwrite" /\ op.st = "probe"
    /\ \E reply \in Replies :
          /\ wire' = Append(wire, Get("rr_fileinfo", <<op.args[2]>>, reply))
          /\ op' = [op EXCEPT !.st = AfterProbe(Fileinfo(reply))]
    /\ UNCHANGED <<listVars, indexVars, legacy, res, disk>>

\* a plausible slip: the move is made whatever became of the delete
AfterTargetDeleteAlwaysMove(e) == "move"

\* if err := r.Delete(newpath); err != nil { return err }
AfterTargetDelete(e) == IF e # [e |-> "nil"] THEN "done" ELSE "move"

\* MoveOverwrite: r.Delete(newpath), whose error is returned
MoveOverwriteDelete ==
    /\ op.fn = "MoveOverwrite" /\ op.st = "delete"
    /\ \E reply \in Replies :
          LET e == checkError(DeleteAction(op.args[2]), reply)
          IN  /\ wire' = Append(wire, Get("rr_delete", <<op.args[2]>>, reply))
              /\ op' = [op EXCEPT !.st = AfterTargetDelete(e)]
              /\ res' = IF AfterTargetDelete(e) = "done" THEN <<e>> ELSE res
    /\ UNCHANGED <<listVars, indexVars, legacy, disk>>

\* MoveOverwrite: return r.Move(oldpath, newpath)
MoveOverwriteMove ==
    /\ op.fn = "MoveOverwrite" /\ op.st = "move"
    /\ \E reply \in Replies :
          /\ wire' = Append(wire, Get("rr_move", op.args, reply))
          /\ res' = <<checkError(MoveAction(op.args[1], op.args[2]), reply)>>
    /\ op' = [op EXCEPT !.st = "done"]
    /\ UNCHANGED <<listVars, indexVars, legacy, disk>>

InitFacade ==
    /\ server = [any |-> TRUE]
    /\ legacy = FALSE
    /\ NoList
    /\ op \in FacadeCalls
    /\ wire = <<>>
    /\ res = <<>>
    /\ disk = {}

NextFacade ==
    \/ Mkdir
    \/ Move
    \/ Delete
    \/ MoveOverwriteProbe
    \/ MoveOverwriteDelete
    \/ MoveOverwriteMove

SpecFacade == InitFacade /\ [][NextFacade]_vars

\* ------------------------------------------------------- DeleteRecursive
\* the paths of a directory tree S of the server, its root included
DiskPaths(S) ==
    {RootDir}
        \cup (IF "a" \in S THEN {RootDir \o <<47, 97>>} ELSE {})
        \cup (IF "aa" \in S THEN {RootDir \o <<47, 97, 47, 97>>} ELSE {})
        \cup (IF "b" \in S THEN {RootDir \o <<47, 98>>} ELSE {})
        \cup (IF "bx" \in S THEN {RootDir \o <<47, 98, 47, 120>>} ELSE {})
        \cup (IF "x" \in S THEN {RootDir \o <<47, 120>>} ELSE {})

\* p lies inside the directory q
Inside(p, q) ==
    /\ Len(p) > Len(q) + 1
    /\ SubSeq(p, 1, Len(q) + 1) = q \o <<SLASH>>

\* A server that deletes exactly the path it is asked to delete, and refuses
\* when there is no such path or it is a directory that is not empty: the
\* paths it holds afterwards.
Removed(paths, p) ==
    IF p \in paths /\ ~\E q \in paths : Inside(q, p) THEN paths \ {p} ELSE paths

\* a plausible slip: the files of a listing are deleted before its sub-listings
DelFrameFilesFirst(n) == [node |-> n, todo |-> <<"files", "subs">>, i |-> 1]

\* a deleteRecursive call on node n: the loop over fl.Subdirs, then the one
\* over fl.Files
DelFrame(n) == [node |-> n, todo |-> <<"subs", "files">>, i |-> 1]

\* The deleteRecursive calls stk (outermost first) run up to the next r.Delete
\* call, or to the return of the outermost one (<<>>) when no request fails.
RECURSIVE Walk(_)
Walk(stk) ==
    IF stk = <<>> THEN <<>>
    ELSE LET d == Len(stk)
             top == stk[d]
             fl == heap[top.node]
         IN  IF top.todo = <<>>
             THEN IF d = 1 THEN <<>>
                  ELSE Walk([SubSeq(stk, 1, d - 1) EXCEPT ![d - 1].i = @ + 1])
             ELSE IF Head(top.todo) = "subs"
             THEN IF top.i <= Len(fl.Subdirs)
                  THEN Walk(Append(stk, DelFrame(fl.Subdirs[top.i])))
                  ELSE Walk([stk EXCEPT ![d].todo = Tail(@), ![d].i = 1])
             ELSE IF top.i <= Len(fl.Files)
                  THEN stk
                  ELSE Walk([stk EXCEPT ![d].todo = Tail(@), ![d].i = 1])

\* the argument of r.Delete in the loop over fl.Files: r.Delete(f.Name)
DeleteArg(dir, name) == name

\* a plausible slip: the error of r.Delete is dropped and the loop goes on
AfterDeleteIgnoreError(stk, e) ==
    LET d == Len(stk)
        on == Walk([stk EXCEPT ![d].i = @ + 1])
    IN  [stk |-> on, res |-> IF on = <<>> THEN <<[e |-> "nil"]>> ELSE <<>>]

\* if err := r.Delete(f.Name); err != nil { return err }, in every caller
AfterDelete(stk, e) ==
    IF e # [e |-> "nil"]
    THEN [stk |-> <<>>, res |-> <<e>>]
    ELSE LET d == Len(stk)
             on == Walk([stk EXCEPT ![d].i = @ + 1])
         IN  [stk |-> on, res |-> IF on = <<>> THEN <<[e |-> "nil"]>> ELSE <<>>]

\* DeleteRecursive: r.Filelist(path, true) has returned
DeleteRecursiveListed ==
    /\ op.fn = "DeleteRecursive" /\ op.st = "list"
    /\ pc = "done"
    /\ IF ret = <<>>
       THEN /\ res' = <<[e |-> err]>>
            /\ op' = [op EXCEPT !.st = "done"]
       ELSE LET stk == Walk(<<DelFrame(1)>>)
            IN  /\ res' = IF stk = <<>> THEN <<[e |-> "nil"]>> ELSE <<>>
                /\ op' = [op EXCEPT !.st = IF stk = <<>> THEN "done" ELSE "delete",
                                    !.stk = stk]
    /\ UNCHANGED <<listVars, indexVars, legacy, wire, disk>>

\* the effect of the r.Delete call the walk stands at, for a given outcome
DeleteStep(reply, paths) ==
    LET top == op.stk[Len(op.stk)]
        fl == heap[top.node]
        arg == DeleteArg(fl.Dir, fl.Files[top.i].Name)
        after == AfterDelete(op.stk, checkError(DeleteAction(arg), reply))
    IN  /\ wire' = Append(wire, Get("rr_delete", <<arg>>, reply)
                                    @@ [node |-> top.node, idx |-> top.i])
        /\ res' = after.res
        /\ op' = [op EXCEPT !.stk = after.stk,
                            !.st = IF after.res = <<>> THEN "delete" ELSE "done"]
        /\ disk' = paths

\* r.Delete against a server that answers anything
DeleteAny ==
    /\ op.fn = "DeleteRecursive" /\ op.st = "delete"
    /\ ~server.strict
    /\ \E reply \in Replies : DeleteStep(reply, disk)
    /\ UNCHANGED <<listVars, indexVars, legacy>>

\* r.Delete against the server that deletes exactly what it is asked to
DeleteStrict ==
    /\ op.fn = "DeleteRecursive" /\ op.st = "delete"
    /\ server.strict
    /\ LET top == op.stk[Len(op.stk)]
           fl == heap[top.node]
           after == Removed(disk, DeleteArg(fl.Dir, fl.Files[top.i].Name))
       IN  \E code \in ErrCodes :
              /\ (code = 0) = (after # disk)
              /\ DeleteStep([kind |-> "code", code |-> code], after)
    /\ UNCHANGED <<listVars, indexVars, legacy>>

\* DeleteRecursive(RootDir) has just been called, against a server that holds
\* a directory tree
InitDelete ==
    /\ \E S \in Disks, strict \in BOOLEAN :
          /\ server = [any |-> FALSE, ls |-> DiskLs(S), size |-> Cardinality(DiskParts),
                       strict |-> strict]
          /\ disk = DiskPaths(S)
    /\ legacy = TRUE
    /\ Called
    /\ recursive = TRUE
    /\ op = [fn |-> "DeleteRecursive", st |-> "list", stk |-> <<>>]
    /\ wire = <<>>
    /\ res = <<>>

NextDelete ==
    \/ GetTransportError
    \/ GetDecodeError
    \/ GetPageLast
    \/ DeleteRecursiveListed
    \/ DeleteAny
    \/ DeleteStrict

SpecDelete == InitDelete /\ [][NextDelete]_vars

\* ------------------------------------------------------- claims: listing
RECURSIVE NodesOf(_)
NodesOf(fl) == {fl} \cup UNION {NodesOf(fl.Subdirs[i]) : i \in DOMAIN fl.Subdirs}

\* the listings of the tree Filelist returned
Returned == IF ret = <<>> THEN {} ELSE NodesOf(ret[1])

\* the listings getFullFilelist has returned so far, returned tree included
Assembled ==
    Returned \cup UNION {NodesOf(stack[i].fl[1]) :
                            i \in {j \in DOMAIN stack : stack[j].fl # <<>>}}

RECURSIVE ConcatFiles(_)
ConcatFiles(pages) ==
    IF pages = <<>> THEN <<>> ELSE Head(pages).Files \o ConcatFiles(Tail(pages))

Count(e, s) == Cardinality({i \in DOMAIN s : s[i] = e})

\* directories first, then ascending name
KeyBefore(x, y) ==
    \/ x.Type = "d" /\ y.Type = "f"
    \/ x.Type = y.Type /\ StrLess(x.Name, y.Name)

\* the stable sort of c, stated by rank: c[a] comes before c[b] when its key is
\* smaller, or the keys are equal and a < b
StableSortOf(c) ==
    LET n == Len(c)
        Before(a, b) == KeyBefore(c[a], c[b]) \/ (~KeyBefore(c[b], c[a]) /\ a < b)
        Rank(a) == Cardinality({b \in 1..n : Before(b, a)})
    IN  [k \in 1..n |-> c[CHOOSE a \in 1..n : Rank(a) = k - 1]]

\* C1: the Files of every listing getFullFilelist assembles from k >= 1 pages
\* are the stable sort (directories first, then ascending name) of the
\* concatenation of the pages in offset order; every entry of every page
\* appears exactly as often as the pages hold it.
C1_FilesAreSortedConcat ==
    \A n \in Assembled :
        LET c == ConcatFiles(n.hPages)
        IN  /\ n.Files = StableSortOf(c)
            /\ \A e \in Entries : Count(e, n.Files) = Count(e, c)

\* a two-page listing whose entries arrived out of order was returned
C1_Witness ==
    /\ pc = "done" /\ ret # <<>>
    /\ Len(ret[1].hPages) = 2
    /\ \A i \in 1..2 : ret[1].hPages[i].Files # <<>>
    /\ ret[1].Files # ConcatFiles(ret[1].hPages)

\* C2: in every listing Filelist returns (the root and every node of the
\* tree) all directory entries precede all file entries, and within each kind
\* the names are non-decreasing.
C2_DirsFirstNamesAscending ==
    \A n \in Assembled :
        \A i, j \in DOMAIN n.Files :
            i < j =>
                /\ ~(n.Files[i].Type = "f" /\ n.Files[j].Type = "d")
                /\ n.Files[i].Type = n.Files[j].Type
                       => ~StrLess(n.Files[j].Name, n.Files[i].Name)

\* a recursive fetch returned a tree with a listing holding a directory and a
\* file that the server had served file first
C2_Witness ==
    /\ pc = "done" /\ ret # <<>> /\ recursive
    /\ \E n \in Returned :
        /\ Len(n.Subdirs) = 1
        /\ Len(n.Files) = 2
        /\ n.Files[1].Type = "d" /\ n.Files[2].Type = "f"
        /\ ConcatFiles(n.hPages)[1].Type = "f"

\* C3: a decoded page with error code 2 makes Filelist fail with
\* ErrDirectoryNotFound, one with code 1 with ErrDriveNotMounted, and one with
\* code 0 is accepted and its entries are used, on the first page and on every
\* later page of a directory.
C3_ListingErrorMapping ==
    last.kind = "page" =>
        /\ last.page.Err = 2 =>
              pc = "done" /\ ret = <<>> /\ err = "ErrDirectoryNotFound"
        /\ last.page.Err = 1 =>
              pc = "done" /\ ret = <<>> /\ err = "ErrDriveNotMounted"
        /\ last.page.Err = 0 =>
              /\ err = "nil"
              /\ \/ \E n \in Assembled :
                        /\ last.page \in {n.hPages[i] : i \in DOMAIN n.hPages}
                        /\ \A e \in Entries :
                              Count(e, last.page.Files) <= Count(e, n.Files)
                 \/ /\ stack # <<>>
                    /\ last.page.Next > 0
                    /\ Top.pages # <<>>
                    /\ Top.pages[Len(Top.pages)] = last.page

\* a later page of a directory carried code 2
C3_Witness ==
    /\ last.kind = "page"
    /\ last.page.Err = 2
    /\ last.page.first # 0
    /\ err = "ErrDirectoryNotFound"

\* C4: Filelist never returns a listing built from a page whose error code is
\* nonzero.
C4_NoListingFromErrorPage ==
    (pc = "done" /\ ret # <<>>) =>
        \A n \in Returned : \A i \in DOMAIN n.hPages : n.hPages[i].Err = 0

\* C5: after a successful recursive Filelist every node of the tree has one
\* sub-listing per directory entry of its Files, in the order of those
\* entries, the i-th one fetched for node.Dir + "/" + name of the i-th
\* directory entry; after a successful non-recursive one Subdirs is empty.
C5_SubdirsMatchDirectories ==
    (pc = "done" /\ ret # <<>>) =>
        IF recursive
        THEN \A n \in Returned :
                LET dirs == SelectSeq(n.Files, LAMBDA f : f.Type = "d")
                IN  /\ Len(n.Subdirs) = Len(dirs)
                    /\ \A i \in DOMAIN dirs :
                          n.Subdirs[i].hReq = n.Dir \o <<47>> \o dirs[i].Name
        ELSE ret[1].Subdirs = <<>>

\* a recursive fetch returned a root with two different subdirectories that
\* the server had served in descending order
C5_Witness ==
    /\ pc = "done" /\ ret # <<>> /\ recursive
    /\ Len(ret[1].Subdirs) = 2
    /\ ret[1].Subdirs[1].hReq # ret[1].Subdirs[2].hReq
    /\ StrLess(ConcatFiles(ret[1].hPages)[2].Name, ConcatFiles(ret[1].hPages)[1].Name)

\* C6: once a request has failed (transport, decode or mapped listing error)
\* Filelist has returned that error and nil, and the failing request is the
\* last one issued; Filelist returns an error only then.
C6_FailureAbortsEverything ==
    /\ failed # 0 =>
          /\ pc = "done" /\ ret = <<>>
          /\ Len(reqs) = failed
          /\ err = CASE last.kind = "transport" -> "transport"
                     [] last.kind = "decode" -> "decode"
                     [] last.kind = "page" /\ last.page.Err = 2 -> "ErrDirectoryNotFound"
                     [] last.kind = "page" /\ last.page.Err = 1 -> "ErrDriveNotMounted"
                     [] OTHER -> "none"
    /\ failed = 0 => err = "nil"
    /\ pc = "done" => (ret = <<>>) = (err # "nil")

\* the second page of a subdirectory failed after the root was assembled
C6_Witness ==
    /\ failed >= 3
    /\ reqs[failed].dir # RootDir
    /\ reqs[failed].first # 0
    /\ pc = "done"

\* --------------------------------------------------------- claims: index
\* the paths of a returned tree: the directory of every listing in it, and
\* D + "/" + name for every file entry of a listing with directory D
TreePaths ==
    {n.Dir : n \in Returned}
        \cup UNION {{n.Dir \o <<47>> \o n.Files[i].Name :
                        i \in {j \in DOMAIN n.Files : n.Files[j].Type = "f"}} :
                    n \in Returned}

C8_BuiltOnceAndNeverRaced ==
    /\ \A n \in DOMAIN builds : builds[n] <= 1
    /\ ~raced

\* C9: once the first Contains call on a listing has built its index, every
\* Contains call on it returns what that index said, whatever was mutated.
C9_AnswersNeverChange ==
    \A t \in Threads :
        (th[t].pc = "ret" /\ th[t].ok /\ ~raced)
            => th[t].val = built[th[t].node][1] \cap QueryPaths

\* C10: on a listing fetched non-recursively Contains(Dir + "/" + name) is
\* true for every directory entry of Files.
C10_ShallowDirectoriesContained ==
    \A t \in Threads :
        (th[t].pc = "ret" /\ th[t].node = 1 /\ ~recursive /\ muts = 0 /\ th[t].ok)
            => \A i \in DOMAIN ret[1].Files :
                   ret[1].Files[i].Type = "d"
                       => ret[1].Dir \o <<47>> \o ret[1].Files[i].Name \in th[t].val

\* -------------------------------------------------------- claims: upload
\* The 32-bit IEEE CRC by its definition: the remainder of the division by
\* 0x04c11db7, the bits of every byte fed lowest first, the register starting
\* at all ones, the result bit-reversed and inverted.
Shl1(a) == {i + 1 : i \in a \ {31}}
Reflect(a) == {31 - i : i \in a}

RECURSIVE DivBits(_, _, _)
DivBits(reg, v, j) ==
    IF j = 8 THEN reg
    ELSE DivBits(IF (Bit(reg, 31) + ((v \div 2^j) % 2)) % 2 = 1
                 THEN Xor(Shl1(reg), Word(1217, 7607))
                 ELSE Shl1(reg),
                 v, j + 1)

RECURSIVE DivBytes(_, _)
DivBytes(reg, p) == IF p = <<>> THEN reg ELSE DivBytes(DivBits(reg, Head(p), 0), Tail(p))

CRC32Of(p) == Not(Reflect(DivBytes(Not(Word(0, 0)), p)))

\* the value of a hexadecimal character, -1 for any other character
HexVal(c) ==
    IF c \in 48..57 THEN c - 48
    ELSE IF c \in 97..102 THEN c - 87
    ELSE IF c \in 65..70 THEN c - 55
    ELSE -1

\* the k-th hexadecimal digit of a 32-bit value, 0 the lowest
Nibble(v, k) ==
    Bit(v, 4 * k) + 2 * Bit(v, 4 * k + 1) + 4 * Bit(v, 4 * k + 2) + 8 * Bit(v, 4 * k + 3)

PostsOf(n) == {i \in DOMAIN wire : wire[i].call = n}

\* C12: an Upload whose payload cannot be read to its end issues no request
\* and returns the read error; an Upload whose payload was read to its end
\* has issued exactly one POST, and its body is the payload, byte for byte.
C12_ReadErrorNoPostElseOnePost ==
    /\ op.st = "read" => PostsOf(op.n) = {}
    /\ op.fail >= 0 =>
          /\ PostsOf(op.n) = {}
          /\ op.st = "done" => res = <<[e |-> "read"]>>
    /\ (op.fail < 0 /\ op.st \in {"wait", "done"}) =>
          /\ Cardinality(PostsOf(op.n)) = 1
          /\ \A i \in PostsOf(op.n) :
                /\ wire[i].method = "POST"
                /\ wire[i].body = op.data
                /\ Len(wire[i].body) = Len(op.buf)
    /\ \A i, j \in DOMAIN wire :
          /\ wire[i].body = wire[i].payload
          /\ wire[i].call = wire[j].call => i = j

\* a payload of two bytes was posted, and the next Upload failed after one
\* byte of its payload: no second request
C12_Witness ==
    /\ op.n = 2 /\ op.st = "done"
    /\ op.fail = 1 /\ op.pos = 1
    /\ res = <<[e |-> "read"]>>
    /\ Len(wire) = 1
    /\ Len(wire[1].body) = 2
\* ------------------------------------------------ claims: the operations
Ok(reply) == reply.kind = "code" /\ reply.code = 0

\* C13: MoveOverwrite(old, new) probes new first; when the probe finds the
\* target, the second request deletes new and the move of old to new is the
\* third (issued once the delete succeeded); when the probe reports not-found,
\* the second and last request is the move and there is no delete request.
C13_ProbeThenDeleteThenMove ==
    op.fn = "MoveOverwrite" =>
        LET old == op.args[1]
            new == op.args[2]
            n == Len(wire)
            move == [method |-> "GET", url |-> "rr_move", args |-> <<old, new>>]
            delete == [method |-> "GET", url |-> "rr_delete", args |-> <<new>>]
            Sent(i) == [method |-> wire[i].method, url |-> wire[i].url,
                        args |-> wire[i].args]
        IN  /\ op.st = "probe" <=> n = 0
            /\ n >= 1 => Sent(1) = [method |-> "GET", url |-> "rr_fileinfo",
                                     args |-> <<new>>]
            /\ (n >= 1 /\ Ok(wire[1].reply)) =>
                  /\ n <= 3
                  /\ n >= 2 => Sent(2) = delete
                  /\ n = 3 => Sent(3) = move /\ Ok(wire[2].reply)
                  /\ (op.st = "done" /\ Ok(wire[2].reply)) => n = 3
            /\ (n >= 1 /\ wire[1].reply.kind = "code" /\ wire[1].reply.code # 0) =>
                  /\ n <= 2
                  /\ n = 2 => Sent(2) = move
                  /\ op.st = "done" => n = 2
                  /\ \A i \in 1..n : wire[i].url # "rr_delete"

\* the target "/g/b" existed: it was deleted and "/g/a" was moved onto it
C13_Witness ==
    /\ op.fn = "MoveOverwrite" /\ op.st = "done"
    /\ op.args = <<RootDir \o <<47, 97>>, RootDir \o <<47, 98>>>>
    /\ Len(wire) = 3
    /\ \A i \in 1..3 : Ok(wire[i].reply)
    /\ res = <<[e |-> "nil"]>>

\* C17: Mkdir, Move and Delete issue exactly one GET each; they return nil
\* exactly when the transport succeeded, the body decoded and its code is 0; a
\* nonzero code gives the failure that names the action and its paths, a
\* transport or decode error is returned as it is.
C17_OneGetSuccessIffCodeZero ==
    op.fn \in {"Mkdir", "Move", "Delete"} =>
        /\ op.st = "call" => wire = <<>> /\ res = <<>>
        /\ op.st = "done" =>
              /\ Len(wire) = 1
              /\ wire[1].method = "GET"
              /\ wire[1].args = op.args
              /\ wire[1].url = CASE op.fn = "Mkdir" -> "rr_mkdir"
                                  [] op.fn = "Move" -> "rr_move"
                                  [] op.fn = "Delete" -> "rr_delete"
              /\ Len(res) = 1
              /\ (res[1] = [e |-> "nil"]) <=> Ok(wire[1].reply)
              /\ wire[1].reply.kind = "transport" => res[1] = [e |-> "transport"]
              /\ wire[1].reply.kind = "decode" => res[1] = [e |-> "decode"]
              /\ (wire[1].reply.kind = "code" /\ wire[1].reply.code # 0) =>
                    /\ res[1].e = "Failed to perform"
                    /\ res[1].action.args = op.args
                    /\ res[1].action.verb = CASE op.fn = "Mkdir" -> "Mkdir"
                                               [] op.fn = "Move" -> "Rename"
                                               [] op.fn = "Delete" -> "Delete"

\* the firmware answered a move of "/g/a" to "/g/b" with code 3
C17_Witness ==
    /\ op.fn = "Move" /\ op.st = "done"
    /\ op.args = <<RootDir \o <<47, 97>>, RootDir \o <<47, 98>>>>
    /\ Len(wire) = 1
    /\ wire[1].reply = [kind |-> "code", code |-> 3]
    /\ res = <<[e |-> "Failed to perform",
                action |-> [verb |-> "Rename",
                            args |-> <<RootDir \o <<47, 97>>, RootDir \o <<47, 98>>>>]]>>
\* ------------------------------------------------ claims: DeleteRecursive
\* the nodes of the sub-listings of node n, at any depth
RECURSIVE Below(_)
Below(n) ==
    UNION {{heap[n].Subdirs[i]} \cup Below(heap[n].Subdirs[i]) :
               i \in DOMAIN heap[n].Subdirs}

\* C14: during DeleteRecursive no delete request for an entry of a
\* sub-listing (at any depth) of a node follows a delete request for an entry
\* of the node itself, and when a request for an entry of the node is issued,
\* one has been issued for every entry of every one of its sub-listings.
C14_SubListingsBeforeOwnEntries ==
    op.fn = "DeleteRecursive" =>
        \A i \in DOMAIN wire :
            /\ \A j \in DOMAIN wire : wire[j].node \in Below(wire[i].node) => j < i
            /\ \A n \in Below(wire[i].node) : \A k \in DOMAIN heap[n].Files :
                  \E j \in 1..(i - 1) : wire[j].node = n /\ wire[j].idx = k

\* "/g" held the directory "b" with the file "x": the request for "x" of
\* the sub-listing came first, the one for "b" of the root second
C14_Witness ==
    /\ op.fn = "DeleteRecursive" /\ op.st = "done"
    /\ res = <<[e |-> "nil"]>>
    /\ Len(heap) = 2
    /\ Len(wire) = 2
    /\ wire[1].node = 2 /\ wire[2].node = 1
    /\ heap[1].Files[wire[2].idx].Type = "d"

\* C15: when DeleteRecursive(path) returns nil against the server that
\* deletes exactly the named path and refuses directories that are not empty,
\* the server holds neither path nor anything inside it.
C15_SuccessMeansAllGone ==
    (op.fn = "DeleteRecursive" /\ op.st = "done" /\ res = <<[e |-> "nil"]>>
         /\ server.strict)
        => \A p \in disk : p # RootDir /\ ~Inside(p, RootDir)

\* C16: a delete request that fails is the last request DeleteRecursive
\* issues, and DeleteRecursive returns its failure; it returns nil only when
\* no delete request failed.
C16_FirstFailedDeleteAborts ==
    op.fn = "DeleteRecursive" =>
        /\ \A i \in DOMAIN wire :
              ~Ok(wire[i].reply) =>
                  /\ i = Len(wire)
                  /\ op.st = "done"
                  /\ res # <<[e |-> "nil"]>>
                  /\ res = <<IF wire[i].reply.kind = "code"
                              THEN [e |-> "Failed to perform",
                                    action |-> [verb |-> "Delete", args |-> wire[i].args]]
                              ELSE [e |-> wire[i].reply.kind]>>
        /\ res = <<[e |-> "nil"]>> => \A i \in DOMAIN wire : Ok(wire[i].reply)

\* the first delete, for an entry of a sub-listing, succeeded, the second one
\* failed, and entries were left
C16_Witness ==
    /\ op.fn = "DeleteRecursive" /\ op.st = "done"
    /\ Len(wire) = 2
    /\ wire[1].node # 1
    /\ Ok(wire[1].reply)
    /\ wire[2].reply = [kind |-> "transport"]
    /\ Len(heap[1].Files) = 2
    /\ res = <<[e |-> "transport"]>>

\* C20: every delete request of DeleteRecursive names Dir + "/" + Name of an
\* entry of the fetched tree, Dir being the directory of the listing that
\* holds the entry, and after a successful run every entry of the tree has
\* been named by exactly one request.
C20_DeletesNameFullPaths ==
    op.fn = "DeleteRecursive" =>
        /\ \A i \in DOMAIN wire :
              wire[i].args = <<heap[wire[i].node].Dir \o <<47>>
                                 \o heap[wire[i].node].Files[wire[i].idx].Name>>
        /\ (op.st = "done" /\ res = <<[e |-> "nil"]>>) =>
              \A n \in DOMAIN heap : \A k \in DOMAIN heap[n].Files :
                  Cardinality({i \in DOMAIN wire :
                                  wire[i].node = n /\ wire[i].idx = k}) = 1

\* ------------------------------------------------- claims: the requests
\* the page sequences of the directories fetched so far: those of the
\* assembled listings and those of the calls still fetching
PageSeqs ==
    {n.hPages : n \in Assembled} \cup {stack[i].pages : i \in DOMAIN stack}

RECURSIVE CountPages(_), CountPagesOf(_, _)
CountPagesOf(subs, i) ==
    IF i = 0 THEN 0 ELSE CountPagesOf(subs, i - 1) + CountPages(subs[i])
CountPages(fl) == Len(fl.hPages) + CountPagesOf(fl.Subdirs, Len(fl.Subdirs))

\* C18: the first request for a directory carries offset 0, every following
\* one the next-offset of the page received before it, no request follows a
\* page with next-offset 0, and there is one request per page.
C18_OffsetsFollowNext ==
    /\ \A pages \in PageSeqs :
          /\ pages # <<>> => pages[1].first = 0
          /\ \A i \in 1..(Len(pages) - 1) :
                /\ pages[i].Next > 0
                /\ pages[i + 1].first = pages[i].Next
    /\ \A n \in Assembled : n.hPages[Len(n.hPages)].Next = 0
    /\ (pc = "done" /\ ret # <<>>) => Len(reqs) = CountPages(ret[1])

\* the requests for the tree fl in the order of a depth-first walk: those for
\* the pages of fl, then those for each sub-listing in turn
RECURSIVE ReqsOf(_), ReqsOfSubs(_, _)
ReqsOfSubs(subs, i) ==
    IF i > Len(subs) THEN <<>> ELSE ReqsOf(subs[i]) \o ReqsOfSubs(subs, i + 1)
ReqsOf(fl) ==
    [i \in DOMAIN fl.hPages |-> [dir |-> fl.hReq, first |-> fl.hPages[i].first]]
        \o ReqsOfSubs(fl.Subdirs, 1)

\* the requests of the active calls from the k-th on: its pages, the
\* sub-listings it has collected, then the call below it
RECURSIVE RunReqs(_)
RunReqs(k) ==
    IF k > Len(stack) THEN <<>>
    ELSE [i \in DOMAIN stack[k].pages |->
              [dir |-> stack[k].req, first |-> stack[k].pages[i].first]]
             \o (IF stack[k].fl = <<>> THEN <<>>
                 ELSE ReqsOfSubs(stack[k].fl[1].Subdirs, 1))
             \o RunReqs(k + 1)

\* C19: the requests of a recursive Filelist are those of a depth-first walk:
\* all pages of a directory, then for each of its directory entries, in
\* sorted order, the whole subtree of Dir + "/" + name before the next one.
C19_RequestsDepthFirst ==
    /\ pc = "run" => reqs = RunReqs(1)
    /\ (pc = "done" /\ ret # <<>>) => reqs = ReqsOf(ret[1])
    /\ \A n \in Assembled :
          LET dirs == SelectSeq(n.Files, LAMBDA f : f.Type = "d")
          IN  /\ Len(n.Subdirs) <= Len(dirs)
              /\ \A i \in DOMAIN n.Subdirs :
                    n.Subdirs[i].hReq = n.Dir \o <<47>> \o dirs[i].Name

\* "/g" holds the directories "a" and "b": "/g", then "/g/a" in two pages,
\* then "/g/b"
C19_Witness ==
    /\ pc = "done" /\ ret # <<>> /\ recursive
    /\ Len(reqs) = 4
    /\ reqs[1].dir = RootDir
    /\ reqs[2].dir = RootDir \o <<47, 97>> /\ reqs[2].first = 0
    /\ reqs[3].dir = RootDir \o <<47, 97>> /\ reqs[3].first # 0
    /\ reqs[4].dir = RootDir \o <<47, 98>>
\* C22: MoveOverwrite issues a delete request only after a probe that
\* succeeded; after a probe that failed (not-found, transport or decode error)
\* it issues no delete and issues the move; after a delete that failed it
\* returns the error of the delete and issues no move.
C22_DeleteOnlyAfterFoundMoveUnlessDeleteFailed ==
    op.fn = "MoveOverwrite" =>
        LET n == Len(wire)
        IN  /\ \A i \in 1..n :
                  wire[i].url = "rr_delete" => i = 2 /\ Ok(wire[1].reply)
            /\ (n >= 1 /\ ~Ok(wire[1].reply)) =>
                  /\ \A i \in 1..n : wire[i].url # "rr_delete"
                  /\ op.st \in {"move", "done"}
                  /\ op.st = "done" =>
                        /\ n = 2
                        /\ wire[2].url = "rr_move" /\ wire[2].args = op.args
            /\ (n >= 2 /\ wire[2].url = "rr_delete" /\ ~Ok(wire[2].reply)) =>
                  /\ n = 2
                  /\ op.st = "done"
                  /\ res = <<IF wire[2].reply.kind = "code"
                              THEN [e |-> "Failed to perform",
                                    action |-> [verb |-> "Delete",
                                                args |-> <<op.args[2]>>]]
                              ELSE [e |-> wire[2].reply.kind]>>

\* the probe did not decode and the move was made; and (other run) the
\* target existed and its delete failed in the transport
C22_Witness ==
    /\ op.fn = "MoveOverwrite" /\ op.st = "done"
    /\ Len(wire) = 2
    /\ \/ /\ wire[1].reply = [kind |-> "decode"]
          /\ wire[2].url = "rr_move"
          /\ Ok(wire[2].reply)
          /\ res = <<[e |-> "nil"]>>
       \/ /\ Ok(wire[1].reply)
          /\ wire[2].url = "rr_delete"
          /\ wire[2].reply = [kind |-> "transport"]
          /\ res = <<[e |-> "transport"]>>
\* ------------------------------------------- claims: root and sub-listings
\* C23: on a tree fetched recursively (not mutated, no buildIndex overlapping
\* another access to the same index), whichever of them was called first, a
\* path for which Contains on a sub-listing returns true is one for which
\* Contains on the root returns true; and once the root's index is built it
\* holds every key of the index of every sub-listing.
C23_RootAnswersCoverSubListings ==
    (recursive /\ muts = 0 /\ ~raced) =>
        /\ \A t \in Threads, u \in Threads :
              (/\ th[t].pc = "ret" /\ th[t].ok /\ th[t].node # 1
               /\ th[u].pc = "ret" /\ th[u].ok /\ th[u].node = 1)
                  => th[t].val \subseteq th[u].val
        /\ (pc = "done" /\ ret # <<>> /\ once[1] = "done")
              => \A n \in DOMAIN heap : Keys(n) \subseteq Keys(1)

\* the sub-listing "/g/b" was asked first and built its index, the root was
\* asked next and built it again: both answer true for "/g/b/x"
C23_Witness ==
    /\ recursive /\ muts = 0 /\ ~raced
    /\ \E t \in Threads, u \in Threads :
          /\ th[t].pc = "ret" /\ th[t].ok /\ th[t].node # 1
          /\ th[u].pc = "ret" /\ th[u].ok /\ th[u].node = 1
          /\ heap[th[t].node].Dir = RootDir \o <<47, 98>>
          /\ builds[th[t].node] = 2
          /\ RootDir \o <<47, 98, 47, 120>> \in th[t].val
          /\ RootDir \o <<47, 98, 47, 120>> \in th[u].val
          /\ RootDir \notin th[t].val
\* ------------------------------------------------- claims: termination
\* the pages the server serves a directory in
PagesOf(ls, size, dir) ==
    IF ls[dir] = <<>> THEN 1 ELSE (Len(ls[dir]) + size - 1) \div size

\* the pages of a directory and, from entry i of it on, of the directories
\* below it
RECURSIVE PagesBelow(_, _, _, _)
PagesBelow(ls, size, dir, i) ==
    IF i > Len(ls[dir]) THEN 0
    ELSE (IF IsDir(ls[dir][i])
          THEN LET sub == SubPath(dir, ls[dir][i].Name)
               IN  PagesOf(ls, size, sub) + PagesBelow(ls, size, sub, 1)
          ELSE 0)
             + PagesBelow(ls, size, dir, i + 1)

\* the pages a Filelist call has to fetch
PagesToFetch ==
    PagesOf(server.ls, server.size, RootDir)
        + (IF recursive THEN PagesBelow(server.ls, server.size, RootDir, 1) ELSE 0)

\* C21: against a server that holds a finite directory tree and answers a
\* request at offset o with the page starting at o, the last page with next
\* offset 0, Filelist returns, and it makes no more requests than the tree has
\* pages.
C21_ReturnsAfterFinitelyManyRequests ==
    /\ <>(pc = "done")
    /\ [](Len(reqs) <= PagesToFetch)

====
